---- MODULE Spec2Model ----
(***************************************************************************)
(* XP Music Visualizer (src/app.js lines 171-528; src/unnamed/part_000 is   *)
(* the earlier revision of the same script without the rhythm estimator).  *)
(*                                                                         *)
(* The page script is modelled as a state machine: the module-level lets   *)
(* (audioCtx, sourceNode, visualizer, microphoneStream, currentStyle), the *)
(* fields of the one XPVisualizer object, the pending requestAnimationFrame*)
(* callbacks and every in-flight loadFile / useMicrophone call with the    *)
(* await it is suspended at.  JavaScript runs every handler, continuation  *)
(* and frame callback to completion, so no action is enabled while a frame *)
(* callback is between its steps (tickPc # "idle").                        *)
(*                                                                         *)
(* Numbers.  Times are integer milliseconds.  Floating-point quantities in *)
(* [0,1] (energies, beat strength) and angles are fixed-point integers     *)
(* with Scale units per 1.0; every product or quotient rounds to the       *)
(* nearest unit, as the double operation rounds to the nearest double.     *)
(* Lengths are fixed-point with PxScale units per CSS pixel.               *)
(***************************************************************************)
EXTENDS Integers, Sequences, FiniteSets, TLC

\* ------------------------------------------------------------------ bounds

\* loadFile / useMicrophone calls started in one session
MaxCalls == 2
\* frames, tab clicks and window resizes in one session of the whole page
MaxEvents == 3
\* frames in one session of the rhythm estimator
MaxRhythmTicks == 4
\* frames and tab clicks in one long Burst session
MaxTrailTicks == 202
MaxTrailClicks == 2
\* frames and tab clicks in one session of mode switches
MaxModeTicks == 4
MaxModeClicks == 3
\* frames, tab clicks and resizes in one session of viewport changes
MaxViewTicks == 2
MaxViewClicks == 1
MaxViewResizes == 1
\* frames, tab clicks and resizes in one session of the scribble phase
MaxPhaseTicks == 3
MaxPhaseClicks == 2
MaxPhaseResizes == 1
\* frames and events (toggle presses, sources, resizes) in one session of
\* the Winamp visualizer page
MaxWinampTicks == 3
MaxWinampEvents == 4
\* frames and tab clicks in one session over the page's analyser
MaxBarTicks == 2
MaxBarClicks == 1
\* analyser.frequencyBinCount of the sessions run over a coarse analyser
\* (the visualizer reads whatever count the analyser reports; the
\* specifications of the page's own analyser use fftSize \div 2 instead)
FrequencyBinCount == 32
\* fixed-point resolutions
Scale == 100000
PxScale == 10

\* ------------------------------------------------------- program constants

emaAlpha == 12              \* percent: const emaAlpha = 0.12
ThresholdGain == 135        \* percent: energyEMA * 1.35
ThresholdBias == 2          \* percent: + 0.02
RefractoryMs == 180         \* nowSec - lastBeatAt > 0.18
DecayMs == 250              \* 1 - beatAge / 0.25
maxScribblePoints == 200
NegInfinity == -1           \* this.lastBeatAt = -Infinity (times are >= 0)
PosInfinity == -2           \* nowSec - (-Infinity)
DprCap == 2                 \* Math.min(window.devicePixelRatio || 1, 2)
fftSize == 2048             \* analyser.fftSize = 2048
barCount == 64              \* const barCount = 64
NaN == -3                   \* 0 / 0

\* ------------------------------------------------------------- arithmetic

Max(a, b) == IF a >= b THEN a ELSE b
Min(a, b) == IF a <= b THEN a ELSE b

\* a / b rounded to the nearest unit (a >= 0, b > 0)
RoundDiv(a, b) == (a + b \div 2) \div b

\* x * (pct / 100) in fixed point
MulPct(x, pct) == RoundDiv(x * pct, 100)

RECURSIVE MulDivMod(_, _, _)
\* <<q, r>> with a * s = q * d + r and 0 <= r < d, by binary long
\* multiplication (no intermediate value exceeds 2 * d + a)
MulDivMod(a, s, d) ==
    IF s = 0 THEN <<0, 0>>
    ELSE LET h == MulDivMod(a, s \div 2, d)
             t == 2 * h[2] + (s % 2) * a
         IN  <<2 * h[1] + t \div d, t % d>>

\* a * s / d rounded to the nearest unit, also where a * s exceeds the
\* range of the machine integers
Ratio(a, s, d) ==
    IF a <= 20000 THEN RoundDiv(a * s, d)
    ELSE MulDivMod(a, s, d)[1] + (MulDivMod(a, s, d)[2] + d \div 2) \div d

RECURSIVE SqrtIter(_, _)
SqrtIter(n, x) ==
    LET y == (x + n \div x) \div 2
    IN  IF y >= x THEN x ELSE SqrtIter(n, y)

\* floor of the square root
ISqrt(n) == IF n = 0 THEN 0 ELSE SqrtIter(n, n)

\* Math.hypot(a, b)
Hypot(a, b) == ISqrt(a * a + b * b)

\* ---------------------------------------------------------------- spectra

Bins == 0 .. (FrequencyBinCount - 1)

\* const lowBandEnd = Math.max(8, Math.floor(len * 0.15))
LowBandEnd(len) == Max(8, (len * 15) \div 100)

\* what analyser.getByteFrequencyData can write into dataArray
Silence == [i \in Bins |-> 0]
Hum == [i \in Bins |-> 8]
Kick == [i \in Bins |-> IF i < LowBandEnd(FrequencyBinCount) THEN 255 ELSE 40]
Mid == [i \in Bins |-> 128]

\* spectra of the page's analyser: everything at full scale, a saw-tooth
PageBins == 0 .. (fftSize \div 2 - 1)
Full == [i \in PageBins |-> 255]
Saw == [i \in PageBins |-> (7 * i) % 256]

RECURSIVE SumRange(_, _, _)
\* sum of data[lo .. lo+n-1], by halves (integer addition is associative:
\* the loop's left-to-right sum is the same number)
SumRange(data, lo, n) ==
    IF n = 0 THEN 0
    ELSE IF n = 1 THEN data[lo]
    ELSE SumRange(data, lo, n \div 2) + SumRange(data, lo + n \div 2, n - n \div 2)

\* sum of data[0 .. n-1]
SumTo(data, n) == SumRange(data, 0, n)

\* lowSum / (255 * lowBandEnd)
LowEnergy(data, len) ==
    Ratio(SumTo(data, LowBandEnd(len)), Scale, 255 * LowBandEnd(len))

\* this.dataArray.reduce((a, b) => a + b) / (255 * len)
AvgAmp(data, len) == Ratio(SumTo(data, len), Scale, 255 * len)

\* const amp = this.dataArray[i] / 255
Amp(v) == RoundDiv(v * Scale, 255)

\* x * f for a factor f in fixed point
MulScale(x, f) == RoundDiv(x * f, Scale)

\* ----------------------------------------------------------------- rhythm

\* mutant: the baseline is never seeded with the first sample
NextEMA_Unseeded(ema, low) ==
    MulPct(ema, 100 - emaAlpha) + MulPct(low, emaAlpha)

\* energyEMA === 0 ? lowEnergy : energyEMA * (1 - emaAlpha) + lowEnergy * emaAlpha
NextEMA(ema, low) ==
    IF ema = 0 THEN low ELSE MulPct(ema, 100 - emaAlpha) + MulPct(low, emaAlpha)

\* const threshold = this.energyEMA * 1.35 + 0.02
Threshold(ema) == MulPct(ema, ThresholdGain) + MulPct(Scale, ThresholdBias)

\* nowSec - this.lastBeatAt
BeatAge(now, last) == IF last = NegInfinity THEN PosInfinity ELSE now - last

\* mutant: the refractory test admits a beat at exactly 0.18 s
RefractoryOver_Inclusive(now, last) ==
    BeatAge(now, last) = PosInfinity \/ BeatAge(now, last) >= RefractoryMs

\* nowSec - this.lastBeatAt > 0.18
RefractoryOver(now, last) ==
    BeatAge(now, last) = PosInfinity \/ BeatAge(now, last) > RefractoryMs

\* mutant: the energy test is not strict and has lost its 0.02 floor
BeatTriggers_Lax(low, ema, now, last) ==
    low >= MulPct(ema, ThresholdGain) /\ RefractoryOver(now, last)

\* lowEnergy > threshold && nowSec - this.lastBeatAt > 0.18
BeatTriggers(low, ema, now, last) ==
    low > Threshold(ema) /\ RefractoryOver(now, last)

\* mutant: the decay is not clamped at 0
Envelope_Unclamped(age) ==
    IF age = PosInfinity THEN 0 ELSE Scale - RoundDiv(age * Scale, DecayMs)

\* Math.max(0, 1 - beatAge / 0.25)
Envelope(age) ==
    IF age = PosInfinity THEN 0 ELSE Max(0, Scale - RoundDiv(age * Scale, DecayMs))

\* ------------------------------------------------------------------ state

Styles == {"swirl", "burst", "spectrum3d"}
\* a data-style attribute no branch of animate recognises
UnknownStyle == "plasma"

\* window.innerWidth, window.innerHeight, window.devicePixelRatio
Windows == {<<800, 600, 1>>, <<1920, 1080, 3>>}

\* the windows of the viewport sessions: a large one, and ones without
\* width, without height, without either
Viewports == {<<1920, 1080, 2>>, <<0, 600, 1>>, <<800, 0, 1>>, <<0, 0, 1>>}

Calls == 1 .. MaxCalls

VARIABLES
    audioCtx,          \* "undefined", or the AudioContext's state
    currentTime,       \* audioCtx.currentTime, ms
    sourceNode,        \* 0 (undefined) or the id of the node
    microphoneStream,  \* 0 (undefined / null) or the id of the stream
    connected,         \* source nodes connected to the analyser
    liveStreams,       \* microphone streams whose tracks are live
    visualizer,        \* TRUE once `visualizer` holds an XPVisualizer
    currentStyle,
    overlay,           \* "prompt", "hidden" or "denied"
    calls,             \* loadFile / useMicrophone calls: kind and await
    window,            \* innerWidth, innerHeight, devicePixelRatio
    context2d,         \* canvas.getContext('2d') yields a context
    listeners,         \* XPVisualizer.resize handlers registered on window
    rafPending,        \* requestAnimationFrame(animate) callbacks pending
    tickPc,            \* position of the running frame callback
    canvasSize,        \* canvas.width, canvas.height
    frequencyBinCount, \* analyser.frequencyBinCount of the analyser in use
    compositeOp,       \* ctx.globalCompositeOperation
    \* fields of the XPVisualizer (read only while visualizer = TRUE)
    dataArray, timeMs, dpr, energyEMA, lastBeatAt, beatStrength,
    centerX, centerY, maxRadius, scribble, scribbleAngle,
    scribbleDefined,   \* this.scribble, this.maxScribblePoints and
                       \* this.scribbleAngle have been assigned
    \* history
    drawn,             \* draw routine the latest frame dispatched to
    lastValidStyle,    \* latest recognised value of currentStyle
    allSilent,         \* every spectrum read so far was all zero
    prevBeatAt,        \* lastBeatAt as it was before the latest beat
    ticks, clicks, resizes

\* The Winamp visualizer page (app.js:1-170) is a page of its own with its own
\* globals; those whose names the XP page also uses carry the prefix winamp.
VARIABLES
    started,           \* init() has run
    winampAudioCtx,    \* audioCtx is not null
    audioSource,       \* 0 = null, else the source node
    winampVisualizer,  \* visualizer is not null
    preset,            \* preset the visualizer has loaded
    rendererSize,      \* size last handed to the visualizer
    connectedAudio,    \* source nodes connected to the visualizer
    destination,       \* source nodes connected to audioCtx.destination
    currentMode, geissTime,
    activeToggle,      \* toggle button carrying the class 'active'
    winampWindow,      \* canvas rectangle and devicePixelRatio
    winampCanvas,      \* canvas.width, canvas.height
    winampRaf,         \* requested frames not yet delivered
    \* history
    rendered,          \* module the latest tick rendered
    creations,         \* visualizers butterchurn.createVisualizer returned
    milkPresses,       \* clicks on the MilkDrop toggle
    winampTicks, winampEvents

winampVars == <<started, winampAudioCtx, audioSource, winampVisualizer, preset,
                rendererSize, connectedAudio, destination, currentMode,
                geissTime, activeToggle, winampWindow, winampCanvas, winampRaf,
                rendered, creations, milkPresses, winampTicks, winampEvents>>

appVars == <<audioCtx, sourceNode, microphoneStream, connected, liveStreams,
             overlay, calls>>
rhythmVars == <<energyEMA, lastBeatAt, beatStrength>>
viewVars == <<dpr, centerX, centerY, maxRadius>>
trailVars == <<scribble, scribbleAngle, scribbleDefined>>
vizVars == <<dataArray, timeMs, rhythmVars, viewVars, trailVars>>
envVars == <<window, context2d, canvasSize, frequencyBinCount>>
histVars == <<drawn, lastValidStyle, allSilent, prevBeatAt, ticks, clicks, resizes>>
vars == <<appVars, currentTime, visualizer, currentStyle, listeners, rafPending,
          tickPc, compositeOp, vizVars, envVars, histVars, winampVars>>

\* the Winamp visualizer page as loaded, before init() (app.js:10-16)
WinampInit ==
    /\ started = FALSE
    /\ winampAudioCtx = FALSE
    /\ audioSource = 0
    /\ winampVisualizer = FALSE
    /\ preset = "none"
    /\ rendererSize = <<0, 0>>
    /\ connectedAudio = {}
    /\ destination = {}
    /\ currentMode = "milk"
    /\ geissTime = 0
    /\ activeToggle = "markup"
    /\ winampWindow = <<800, 600, 1>>
    /\ winampCanvas = <<300, 150>>
    /\ winampRaf = 0
    /\ rendered = "none"
    /\ creations = 0
    /\ milkPresses = 0
    /\ winampTicks = 0
    /\ winampEvents = 0

\* the page as loaded, with the analyser ensureAudioContext will create
\* reporting `bins` frequency bins
InitOf(bins) ==
    /\ frequencyBinCount = bins
    /\ audioCtx = "undefined"
    /\ currentTime = 0
    /\ sourceNode = 0
    /\ microphoneStream = 0
    /\ connected = {}
    /\ liveStreams = {}
    /\ visualizer = FALSE
    /\ currentStyle = "swirl"
    /\ overlay = "prompt"
    /\ calls = [c \in Calls |-> [kind |-> "none", pc |-> "unused"]]
    /\ window = <<800, 600, 1>>
    /\ context2d \in BOOLEAN
    /\ listeners = 0
    /\ rafPending = 0
    /\ tickPc = "idle"
    /\ canvasSize = <<300, 150>>
    /\ compositeOp = "source-over"
    /\ dataArray = [i \in 0 .. (bins - 1) |-> 0]
    /\ timeMs = 0
    /\ dpr = 1
    /\ energyEMA = 0
    /\ lastBeatAt = NegInfinity
    /\ beatStrength = 0
    /\ centerX = 0
    /\ centerY = 0
    /\ maxRadius = 0
    /\ scribble = <<>>
    /\ scribbleAngle = 0
    /\ scribbleDefined = FALSE
    /\ drawn = "none"
    /\ lastValidStyle = "swirl"
    /\ allSilent = TRUE
    /\ prevBeatAt = NegInfinity
    /\ ticks = 0
    /\ clicks = 0
    /\ resizes = 0
    /\ WinampInit

\* a session over the coarse analyser
Init == InitOf(FrequencyBinCount)

\* a session on the page: frequencyBinCount is half the fftSize that
\* ensureAudioContext sets
InitPage == InitOf(fftSize \div 2)

\* this.bufferLength = this.analyser.frequencyBinCount
bufferLength == frequencyBinCount

\* ----------------------------------------------------- XPVisualizer.resize

\* this.dpr = Math.min(window.devicePixelRatio || 1, 2)
DprOf(w) == Min(w[3], DprCap)

\* canvas.width = Math.floor(cssWidth * dpr), canvas.height likewise
CanvasOf(w) == <<w[1] * DprOf(w), w[2] * DprOf(w)>>

\* centerX = cssWidth / 2, centerY = cssHeight / 2, maxRadius = hypot
CenterXOf(w) == (w[1] * PxScale) \div 2
CenterYOf(w) == (w[2] * PxScale) \div 2
\* mutant: the min-dimension policy of the earlier revision,
\* Math.min(centerX, centerY) * 0.9
MaxRadiusOf_MinDimension(w) == MulPct(Min(CenterXOf(w), CenterYOf(w)), 90)

MaxRadiusOf(w) == Hypot(CenterXOf(w), CenterYOf(w))

\* resize() on the object `visualizer` holds, for the window w
resize(w) ==
    /\ dpr' = DprOf(w)
    /\ canvasSize' = CanvasOf(w)
    /\ centerX' = CenterXOf(w)
    /\ centerY' = CenterYOf(w)
    /\ maxRadius' = MaxRadiusOf(w)

\* resize() on an object built without a drawing context: the canvas is
\* sized, then this.ctx.setTransform throws on the null context
resizeThrows(w) ==
    /\ canvasSize' = CanvasOf(w)
    /\ UNCHANGED viewVars

\* ------------------------------------------------ XPVisualizer.constructor

\* mutant: the constructor returns without assigning the trail fields
constructed_TrailUnassigned ==
    /\ visualizer' = TRUE
    /\ dataArray' = [i \in 0 .. (bufferLength - 1) |-> 0]
    /\ timeMs' = 0
    /\ energyEMA' = 0
    /\ lastBeatAt' = NegInfinity
    /\ beatStrength' = 0
    /\ listeners' = listeners + 1
    /\ resize(window)
    /\ rafPending' = rafPending + 1
    /\ UNCHANGED trailVars

\* new XPVisualizer(canvas, analyser, audioCtx) with a 2D context: the whole
\* constructor runs before any callback it registered can
constructed ==
    /\ visualizer' = TRUE
    /\ dataArray' = [i \in 0 .. (bufferLength - 1) |-> 0]
    /\ timeMs' = 0
    /\ energyEMA' = 0
    /\ lastBeatAt' = NegInfinity
    /\ beatStrength' = 0
    /\ listeners' = listeners + 1
    /\ resize(window)
    /\ rafPending' = rafPending + 1
    /\ scribble' = <<>>
    /\ scribbleAngle' = 0
    /\ scribbleDefined' = TRUE

\* mutant: the first frame is requested before resize() is called
constructorThrows_AfterSchedule ==
    /\ listeners' = listeners + 1
    /\ rafPending' = rafPending + 1
    /\ resizeThrows(window)
    /\ UNCHANGED <<visualizer, dataArray, timeMs, rhythmVars, trailVars>>

\* new XPVisualizer(...) when getContext('2d') is null: the listeners are
\* registered, resize() throws, nothing is scheduled or assigned
constructorThrows ==
    /\ listeners' = listeners + 1
    /\ resizeThrows(window)
    /\ UNCHANGED <<visualizer, dataArray, timeMs, rhythmVars, trailVars, rafPending>>

\* if (!visualizer) { visualizer = new XPVisualizer(...) }
ensureVisualizer ==
    IF visualizer
      THEN UNCHANGED <<visualizer, vizVars, listeners, rafPending, canvasSize>>
      ELSE IF context2d THEN constructed ELSE constructorThrows

\* the statement above throws
ensureVisualizerThrows == ~visualizer /\ ~context2d

\* --------------------------------------------------------- source handling

\* stopCurrentSource(): the nodes left connected, the streams left live
StoppedConnected == connected \ {sourceNode}
StoppedLive == liveStreams \ {microphoneStream}

\* the await a call reaches after `await ensureAudioContext()`:
\* stopCurrentSource() has run and the next promise is pending
AfterEnsurePc(kind) == IF kind = "file" THEN "arrayBuffer" ELSE "getUserMedia"

NextCall == Cardinality({c \in Calls : calls[c].pc # "unused"}) + 1

Quiet == tickPc = "idle"

\* fileInput change / micButton click: loadFile(file) or useMicrophone() up
\* to its first suspension. ensureAudioContext creates the context on first
\* use; a suspended context makes the call wait for resume(), a running one
\* lets the call go on (in the same microtask checkpoint) to
\* stopCurrentSource() and the next await.
startCall(kind, maxCalls) ==
    /\ Quiet
    /\ NextCall <= maxCalls
    /\ \E created \in {"suspended", "running"} :
         LET state == IF audioCtx = "undefined" THEN created ELSE audioCtx
         IN  /\ audioCtx' = state
             /\ IF state = "suspended"
                  THEN /\ calls' = [calls EXCEPT ![NextCall] =
                                      [kind |-> kind, pc |-> "resume"]]
                       /\ UNCHANGED <<connected, liveStreams, microphoneStream>>
                  ELSE /\ calls' = [calls EXCEPT ![NextCall] =
                                      [kind |-> kind, pc |-> AfterEnsurePc(kind)]]
                       /\ connected' = StoppedConnected
                       /\ liveStreams' = StoppedLive
                       /\ microphoneStream' = 0
    /\ UNCHANGED <<sourceNode, overlay, currentTime, visualizer, currentStyle,
                   listeners, rafPending, tickPc, compositeOp, vizVars, envVars,
                   histVars>>
    /\ UNCHANGED winampVars

\* audioCtx.resume() resolves (in the order the calls asked for it): the
\* call runs stopCurrentSource() and reaches its next await
resumed(c) ==
    /\ Quiet
    /\ calls[c].pc = "resume"
    /\ \A d \in Calls : d < c => calls[d].pc # "resume"
    /\ audioCtx' = "running"
    /\ calls' = [calls EXCEPT ![c].pc = AfterEnsurePc(calls[c].kind)]
    /\ connected' = StoppedConnected
    /\ liveStreams' = StoppedLive
    /\ microphoneStream' = 0
    /\ UNCHANGED <<sourceNode, overlay, currentTime, visualizer, currentStyle,
                   listeners, rafPending, tickPc, compositeOp, vizVars, envVars,
                   histVars>>
    /\ UNCHANGED winampVars

\* file.arrayBuffer() settles
arrayBufferSettled(c, ok) ==
    /\ Quiet
    /\ calls[c].pc = "arrayBuffer"
    /\ calls' = [calls EXCEPT ![c].pc = IF ok THEN "decode" ELSE "rejected"]
    /\ UNCHANGED <<audioCtx, sourceNode, microphoneStream, connected, liveStreams,
                   overlay, currentTime, visualizer, currentStyle, listeners,
                   rafPending, tickPc, compositeOp, vizVars, envVars, histVars>>
    /\ UNCHANGED winampVars

\* audioCtx.decodeAudioData rejects: loadFile ends with the rejection
decodeRejected(c) ==
    /\ Quiet
    /\ calls[c].pc = "decode"
    /\ calls' = [calls EXCEPT ![c].pc = "rejected"]
    /\ UNCHANGED <<audioCtx, sourceNode, microphoneStream, connected, liveStreams,
                   overlay, currentTime, visualizer, currentStyle, listeners,
                   rafPending, tickPc, compositeOp, vizVars, envVars, histVars>>
    /\ UNCHANGED winampVars

\* audioCtx.decodeAudioData resolves: the rest of loadFile
decodeResolved(c) ==
    /\ Quiet
    /\ calls[c].pc = "decode"
    /\ connected' = connected \cup {c}
    /\ sourceNode' = c
    /\ ensureVisualizer
    /\ overlay' = IF ensureVisualizerThrows THEN overlay ELSE "hidden"
    /\ calls' = [calls EXCEPT ![c].pc =
                   IF ensureVisualizerThrows THEN "rejected" ELSE "done"]
    /\ UNCHANGED <<audioCtx, microphoneStream, liveStreams, currentTime,
                   currentStyle, tickPc, compositeOp, window, context2d,
                   frequencyBinCount, histVars>>
    /\ UNCHANGED winampVars

\* getUserMedia rejects: the catch block of useMicrophone
getUserMediaRejected(c) ==
    /\ Quiet
    /\ calls[c].pc = "getUserMedia"
    /\ overlay' = "denied"
    /\ calls' = [calls EXCEPT ![c].pc = "denied"]
    /\ UNCHANGED <<audioCtx, sourceNode, microphoneStream, connected, liveStreams,
                   currentTime, visualizer, currentStyle, listeners, rafPending,
                   tickPc, compositeOp, vizVars, envVars, histVars>>
    /\ UNCHANGED winampVars

\* getUserMedia resolves with a stream: the rest of the try block; an
\* exception of the constructor lands in the same catch block
getUserMediaResolved(c) ==
    /\ Quiet
    /\ calls[c].pc = "getUserMedia"
    /\ microphoneStream' = c
    /\ liveStreams' = liveStreams \cup {c}
    /\ connected' = connected \cup {c}
    /\ sourceNode' = c
    /\ ensureVisualizer
    /\ overlay' = IF ensureVisualizerThrows THEN "denied" ELSE "hidden"
    /\ calls' = [calls EXCEPT ![c].pc =
                   IF ensureVisualizerThrows THEN "denied" ELSE "done"]
    /\ UNCHANGED <<audioCtx, currentTime, currentStyle, tickPc, compositeOp,
                   window, context2d, frequencyBinCount, histVars>>
    /\ UNCHANGED winampVars

\* ------------------------------------------------------------ UI handlers

\* mutant: a tab click restarts the beat detection
tabClick_ResetsRhythm(style, more) ==
    /\ Quiet
    /\ more
    /\ currentStyle' = style
    /\ lastValidStyle' = IF style \in Styles THEN style ELSE lastValidStyle
    /\ clicks' = clicks + 1
    /\ energyEMA' = 0
    /\ lastBeatAt' = NegInfinity
    /\ beatStrength' = 0
    /\ UNCHANGED <<appVars, currentTime, visualizer, listeners, rafPending, tickPc,
                   compositeOp, dataArray, timeMs, viewVars, trailVars, envVars,
                   drawn, allSilent, prevBeatAt, ticks, resizes>>
    /\ UNCHANGED winampVars

\* tab button click: currentStyle = btn.getAttribute('data-style')
tabClick(style, more) ==
    /\ Quiet
    /\ more
    /\ currentStyle' = style
    /\ lastValidStyle' = IF style \in Styles THEN style ELSE lastValidStyle
    /\ clicks' = clicks + 1
    /\ UNCHANGED <<appVars, currentTime, visualizer, listeners, rafPending, tickPc,
                   compositeOp, vizVars, envVars, drawn, allSilent, prevBeatAt, ticks,
                   resizes>>
    /\ UNCHANGED winampVars

\* window 'resize' / document 'fullscreenchange': every registered
\* XPVisualizer.resize runs against the new window
windowResized(w, more) ==
    /\ Quiet
    /\ more
    /\ window' = w
    /\ IF listeners = 0
         THEN UNCHANGED <<canvasSize, viewVars>>
         ELSE IF visualizer THEN resize(w) ELSE resizeThrows(w)
    /\ resizes' = resizes + 1
    /\ UNCHANGED <<appVars, currentTime, visualizer, currentStyle, listeners,
                   rafPending, tickPc, compositeOp, dataArray, timeMs, rhythmVars,
                   trailVars, context2d, frequencyBinCount, drawn, lastValidStyle,
                   allSilent, prevBeatAt, ticks, clicks>>
    /\ UNCHANGED winampVars

\* ---------------------------------------------------- XPVisualizer.animate

\* the browser runs the pending frame callback: getByteFrequencyData fills
\* dataArray, timeMs is read from the audio clock (which never runs back)
animateRead(spectra, steps, more) ==
    /\ tickPc = "idle"
    /\ rafPending > 0
    /\ more
    /\ rafPending' = rafPending - 1
    /\ \E s \in spectra, d \in steps :
         /\ dataArray' = s
         /\ currentTime' = currentTime + d
         /\ timeMs' = currentTime + d
         /\ allSilent' = (allSilent /\ \A i \in DOMAIN s : s[i] = 0)
    /\ tickPc' = "rhythm"
    /\ ticks' = ticks + 1
    /\ UNCHANGED <<appVars, visualizer, currentStyle, listeners, compositeOp,
                   rhythmVars, viewVars, trailVars, envVars, drawn, lastValidStyle,
                   prevBeatAt, clicks, resizes>>
    /\ UNCHANGED winampVars

\* this.energyEMA after the update of this frame
UpdatedEMA == NextEMA(energyEMA, LowEnergy(dataArray, bufferLength))

\* mutant: the trigger test compares against the baseline of the frame
\* before, not the one just updated
UpdatedLastBeatAt_OldBaseline ==
    IF BeatTriggers(LowEnergy(dataArray, bufferLength), energyEMA,
                    timeMs, lastBeatAt)
      THEN timeMs ELSE lastBeatAt

\* this.lastBeatAt after the trigger test of this frame
UpdatedLastBeatAt ==
    IF BeatTriggers(LowEnergy(dataArray, bufferLength), UpdatedEMA,
                    timeMs, lastBeatAt)
      THEN timeMs ELSE lastBeatAt

\* mutant: the strength is computed before lastBeatAt is reassigned
UpdatedBeatStrength_Stale == Envelope(BeatAge(timeMs, lastBeatAt))

\* this.beatStrength after this frame
UpdatedBeatStrength == Envelope(BeatAge(timeMs, UpdatedLastBeatAt))

\* beat detection: baseline, trigger, decaying strength
animateRhythm ==
    /\ tickPc = "rhythm"
    /\ energyEMA' = UpdatedEMA
    /\ lastBeatAt' = UpdatedLastBeatAt
    /\ beatStrength' = UpdatedBeatStrength
    /\ prevBeatAt' = IF lastBeatAt' # lastBeatAt THEN lastBeatAt ELSE prevBeatAt
    /\ tickPc' = "draw"
    /\ UNCHANGED <<appVars, currentTime, visualizer, currentStyle, listeners,
                   rafPending, compositeOp, dataArray, timeMs, viewVars, trailVars,
                   envVars, drawn, lastValidStyle, allSilent, ticks, clicks,
                   resizes>>
    /\ UNCHANGED winampVars

\* mutant: a mode that does not draw the trail throws it away
drawSwirl_ResetsTrail ==
    /\ compositeOp' = "lighter"
    /\ scribble' = <<>>
    /\ scribbleAngle' = 0
    /\ UNCHANGED scribbleDefined

\* drawSwirl(): paints, keeps no state but the composition mode
drawSwirl ==
    /\ compositeOp' = "lighter"
    /\ UNCHANGED trailVars

\* mutant: the arcs are sized as the earlier revision sized them,
\* maxRadius * (0.5 + amp * 0.5)
SwirlRadius_FirstRevision(maxR, amp, strength) ==
    MulScale(maxR, MulPct(Scale, 50) + MulPct(amp, 50))

\* const beatBoost = 1 + this.beatStrength * 0.25
\* const radius = this.maxRadius * (0.55 + amp * 0.6) * beatBoost
SwirlRadius(maxR, amp, strength) ==
    MulScale(MulScale(maxR, MulPct(Scale, 55) + MulPct(amp, 60)),
             Scale + MulPct(strength, 25))

\* the radii of the arcs drawSwirl strokes in the current state, by bin
SwirlArcs ==
    [i \in 0 .. (bufferLength - 1) |->
        SwirlRadius(maxRadius, Amp(dataArray[i]), beatStrength)]

\* const length = this.maxRadius * (0.35 + amp * 0.8) * (1 + beatStrength * 0.3)
BurstLength(maxR, amp, strength) ==
    MulScale(MulScale(maxR, MulPct(Scale, 35) + MulPct(amp, 80)),
             Scale + MulPct(strength, 30))

\* the lengths of the spokes drawBurst strokes in the current state, by bin
BurstSpokes ==
    [i \in 0 .. (bufferLength - 1) |->
        BurstLength(maxRadius, Amp(dataArray[i]), beatStrength)]

\* const barsPerBin = Math.floor(len / barCount)
barsPerBin(len) == len \div barCount

\* mutant: the bars are not strided, bar i starts at bin i
BarBin_Unstrided(len, i, j) == i + j

\* the bin the inner loop reads for bar i at step j: i * barsPerBin + j
BarBin(len, i, j) == i * barsPerBin(len) + j

RECURSIVE BarSum(_, _, _, _)
\* for (let j = 0; j < barsPerBin; j++) sum += this.dataArray[...],
\* over the first n steps
BarSum(data, len, i, n) ==
    IF n = 0 THEN 0 ELSE data[BarBin(len, i, n - 1)] + BarSum(data, len, i, n - 1)

\* const amp = sum / (barsPerBin * 255)
BarAmp(data, len, i) ==
    IF barsPerBin(len) = 0 THEN NaN
    ELSE RoundDiv(BarSum(data, len, i, barsPerBin(len)) * Scale,
                  barsPerBin(len) * 255)

\* const maxBarHeight = height * 0.65, height = window.innerHeight
MaxBarHeight(w) == MulPct(w[2] * PxScale, 65)

\* const barHeight = maxBarHeight * amp
BarHeight(w, amp) == IF amp = NaN THEN NaN ELSE MulScale(MaxBarHeight(w), amp)

\* the heights of the bars drawSpectrum3D fills in the current state
SpectrumBars ==
    [i \in 0 .. (barCount - 1) |->
        BarHeight(window, BarAmp(dataArray, bufferLength, i))]

\* mutant: SpectrumBars paints with whatever composition mode it finds
drawSpectrum3D_InheritsComposite ==
    UNCHANGED <<compositeOp, trailVars>>

\* drawSpectrum3D(): paints, keeps no state but the composition mode
drawSpectrum3D ==
    /\ compositeOp' = "source-over"
    /\ UNCHANGED trailVars

\* mutant: the constant term of the step is lost
ScribbleStep_NoFloor(avgAmp, strength) ==
    MulPct(avgAmp, 30) + MulPct(strength, 5)

\* 0.02 + avgAmp * 0.3 + this.beatStrength * 0.05
ScribbleStep(avgAmp, strength) ==
    MulPct(Scale, 2) + MulPct(avgAmp, 30) + MulPct(strength, 5)

\* { x: centerX + cos(angle) * scribbleRadius, y: centerY + sin(angle) *
\* scribbleRadius } with scribbleRadius = maxRadius * 0.4, kept in polar form
ScribblePoint(angle) ==
    [cx |-> centerX, cy |-> centerY, r |-> MulPct(maxRadius, 40), a |-> angle]

\* mutant: a full buffer drops the point just appended (pop for shift)
PushScribble_DropsNewest(buf, p) ==
    IF Len(Append(buf, p)) > maxScribblePoints THEN buf ELSE Append(buf, p)

\* mutant: the oldest point is never evicted
PushScribble_Unbounded(buf, p) == Append(buf, p)

\* this.scribble.push(p); if (length > maxScribblePoints) this.scribble.shift()
PushScribble(buf, p) ==
    IF Len(Append(buf, p)) > maxScribblePoints
      THEN Tail(Append(buf, p)) ELSE Append(buf, p)

\* drawBurst(): the spokes are painted, the scribble path advances
drawBurst ==
    /\ compositeOp' = "lighter"
    /\ scribbleAngle' = scribbleAngle
                        + ScribbleStep(AvgAmp(dataArray, bufferLength),
                                       beatStrength)
    /\ scribble' = PushScribble(scribble, ScribblePoint(scribbleAngle'))
    /\ UNCHANGED scribbleDefined

\* drawBurst() on an object whose trail fields are not assigned yet: the
\* spokes are painted, undefined + number is NaN, this.scribble.push throws
drawBurstThrows ==
    /\ compositeOp' = "lighter"
    /\ scribbleAngle' = NaN
    /\ UNCHANGED <<scribble, scribbleDefined>>

\* the draw routine animate dispatches to for a style ("none": no branch)
Dispatch(style) == IF style \in Styles THEN style ELSE "none"

\* if (currentStyle === 'swirl') ... else if ... else if ...
animateDraw ==
    /\ tickPc = "draw"
    /\ drawn' = Dispatch(currentStyle)
    /\ CASE drawn' = "swirl" -> drawSwirl
         [] drawn' = "burst" -> IF scribbleDefined THEN drawBurst ELSE drawBurstThrows
         [] drawn' = "spectrum3d" -> drawSpectrum3D
         [] OTHER -> UNCHANGED <<compositeOp, trailVars>>
    \* an exception of the draw routine ends the callback before it
    \* requests the next frame
    /\ tickPc' = IF drawn' = "burst" /\ ~scribbleDefined THEN "idle" ELSE "schedule"
    /\ UNCHANGED <<appVars, currentTime, visualizer, currentStyle, listeners,
                   rafPending, dataArray, timeMs, rhythmVars, viewVars, envVars,
                   lastValidStyle, allSilent, prevBeatAt, ticks, clicks, resizes>>
    /\ UNCHANGED winampVars

\* mutant: animate returns without requesting the next frame
Rescheduled_Never(pending) == pending

\* mutant: animate requests the next frame twice
Rescheduled_Twice(pending) == pending + 2

\* callbacks animate leaves pending when it returns
Rescheduled(pending) == pending + 1

\* mutant: the spectrum is pulled from the analyser a second time at the
\* end of the frame
animateSchedule_RereadsSpectrum ==
    /\ tickPc = "schedule"
    /\ rafPending' = Rescheduled(rafPending)
    /\ tickPc' = "idle"
    /\ dataArray' = [i \in DOMAIN dataArray |-> 0]
    /\ UNCHANGED <<appVars, currentTime, visualizer, currentStyle, listeners,
                   compositeOp, timeMs, rhythmVars, viewVars, trailVars, envVars,
                   histVars>>
    /\ UNCHANGED winampVars

\* requestAnimationFrame(this.animate), the last statement of animate
animateSchedule ==
    /\ tickPc = "schedule"
    /\ rafPending' = Rescheduled(rafPending)
    /\ tickPc' = "idle"
    /\ UNCHANGED <<appVars, currentTime, visualizer, currentStyle, listeners,
                   compositeOp, vizVars, envVars, histVars>>
    /\ UNCHANGED winampVars

\* ---------------------------------------------------------- specifications

\* frames, tab clicks and resizes so far
Events == ticks + clicks + resizes

\* the continuations of the in-flight calls
Continue ==
    \E c \in Calls :
        \/ resumed(c)
        \/ \E ok \in BOOLEAN : arrayBufferSettled(c, ok)
        \/ decodeResolved(c)
        \/ decodeRejected(c)
        \/ getUserMediaResolved(c)
        \/ getUserMediaRejected(c)

\* the rest of a frame callback that has read its inputs
Frame == animateRhythm \/ animateDraw \/ animateSchedule

\* The whole page: both sources, every tab (and an unrecognised one),
\* resizes, short runs of frames over a playing source.
Next ==
    \/ \E kind \in {"file", "mic"} : startCall(kind, MaxCalls)
    \/ Continue
    \/ \E style \in Styles \cup {UnknownStyle} : tabClick(style, Events < MaxEvents)
    \/ \E w \in Windows : windowResized(w, Events < MaxEvents)
    \/ animateRead({Kick}, {16}, Events < MaxEvents)
    \/ Frame

Spec == Init /\ [][Next]_vars

\* a file is chosen and decodes: loadFile runs through
FileLoads ==
    \/ startCall("file", 1)
    \/ \E c \in Calls : resumed(c) \/ arrayBufferSettled(c, TRUE) \/ decodeResolved(c)

\* The rhythm estimator: one file source, frames over quiet, humming and
\* kicking spectra, frame times on and around the 0.18 s and 0.25 s marks.
NextRhythm ==
    \/ FileLoads
    \/ animateRead({Silence, Hum, Kick}, {0, 90, 180, 250}, ticks < MaxRhythmTicks)
    \/ Frame

SpecRhythm == Init /\ [][NextRhythm]_vars

\* The scribble trail over a long run: one file source, a steady hum at the
\* display rate, tab switches, more Burst frames than the trail holds.
NextTrail ==
    \/ FileLoads
    \/ \E style \in Styles : tabClick(style, clicks < MaxTrailClicks)
    \/ animateRead({Hum}, {16}, ticks < MaxTrailTicks)
    \/ Frame

SpecTrail == Init /\ [][NextTrail]_vars

\* Mode switches: one file source, every tab, frames of hum and kick in
\* between, at the display rate and after a pause.
NextModes ==
    \/ FileLoads
    \/ \E style \in Styles : tabClick(style, clicks < MaxModeClicks)
    \/ animateRead({Hum, Kick}, {16, 250}, ticks < MaxModeTicks)
    \/ Frame

SpecModes == Init /\ [][NextModes]_vars

\* Viewport changes: one file source, a resize of the running visualizer
\* to a large or a degenerate window, every tab, frames of a flat
\* mid-level spectrum and of a kick, the first of them at time 0.
NextView ==
    \/ FileLoads
    \/ \E style \in Styles : tabClick(style, clicks < MaxViewClicks)
    \/ \E w \in Viewports : windowResized(w, visualizer /\ resizes < MaxViewResizes)
    \/ animateRead({Mid, Kick}, {0, 16}, ticks < MaxViewTicks)
    \/ Frame

SpecView == Init /\ [][NextView]_vars

\* The page's analyser: one file source, every tab, frames of a full-scale
\* and of a saw-tooth spectrum over the fftSize / 2 bins the analyser has.
NextBars ==
    \/ FileLoads
    \/ \E style \in Styles : tabClick(style, clicks < MaxBarClicks)
    \/ animateRead({Full, Saw}, {16}, ticks < MaxBarTicks)
    \/ Frame

SpecBars == InitPage /\ [][NextBars]_vars

\* The scribble phase: one file source, every tab, a resize of the running
\* visualizer, frames of silence, hum and kick at the display rate.
NextPhase ==
    \/ FileLoads
    \/ \E style \in Styles : tabClick(style, clicks < MaxPhaseClicks)
    \/ \E w \in Windows : windowResized(w, visualizer /\ resizes < MaxPhaseResizes)
    \/ animateRead({Silence, Hum, Kick}, {16}, ticks < MaxPhaseTicks)
    \/ Frame

SpecPhase == Init /\ [][NextPhase]_vars

\* ------------------------------------------------ Winamp visualizer page

\* geissTime counts thousandths: geissTime += 0.015
GeissStep == 15

WinampWindows == {<<800, 600, 1>>, <<1280, 720, 2>>}

\* everything of the XP page
xpVars == <<appVars, currentTime, visualizer, currentStyle, listeners, rafPending,
            tickPc, compositeOp, vizVars, envVars, histVars>>

NextSource == IF audioSource = 0 THEN 1 ELSE audioSource + 1

\* mutant: a visualizer is created on every call
setupButterchurn_NoGuard(ok, hasPreset) ==
    /\ winampAudioCtx' = TRUE
    /\ IF ok
         THEN /\ winampVisualizer' = TRUE
              /\ creations' = creations + 1
              /\ rendererSize' = <<winampWindow[1], winampWindow[2]>>
              /\ preset' = IF hasPreset THEN "default" ELSE "none"
              /\ connectedAudio' = IF audioSource # 0
                                     THEN connectedAudio \cup {audioSource}
                                     ELSE connectedAudio
         ELSE UNCHANGED <<winampVisualizer, creations, rendererSize, preset,
                          connectedAudio>>

\* setupButterchurn(): the audio context exists afterwards; the visualizer
\* is created (at the canvas's client size) and given the default preset
\* (the first of butterchurnPresets, if there is one) only when there is
\* none yet, and the current source, if any, is connected to it.
\* butterchurn.createVisualizer returns (ok) or throws: the function is
\* async, the throw rejects its promise and ends it there.
setupButterchurn(ok, hasPreset) ==
    /\ winampAudioCtx' = TRUE
    /\ IF winampVisualizer
         THEN /\ UNCHANGED <<winampVisualizer, creations, rendererSize, preset>>
              /\ connectedAudio' = IF audioSource # 0
                                     THEN connectedAudio \cup {audioSource}
                                     ELSE connectedAudio
         ELSE IF ok
           THEN /\ winampVisualizer' = TRUE
                /\ creations' = creations + 1
                /\ rendererSize' = <<winampWindow[1], winampWindow[2]>>
                /\ preset' = IF hasPreset THEN "default" ELSE "none"
                /\ connectedAudio' = IF audioSource # 0
                                       THEN connectedAudio \cup {audioSource}
                                       ELSE connectedAudio
           ELSE UNCHANGED <<winampVisualizer, creations, rendererSize, preset,
                            connectedAudio>>

\* canvas.width/height = rect.width/height * (devicePixelRatio || 1)
WinampCanvasOf(w) == <<w[1] * w[3], w[2] * w[3]>>

\* mutant: the Geiss stub is rendered whenever Butterchurn is not
Rendered_GeissFallback(mode, viz) ==
    IF mode = "milk" /\ viz THEN "butterchurn" ELSE "geiss"

\* the branch tick() takes: visualizer.render(), renderGeiss() or neither
Rendered(mode, viz) ==
    IF mode = "milk" /\ viz THEN "butterchurn"
    ELSE IF mode = "geiss" THEN "geiss"
    ELSE "none"

\* the body of tick() before it requests the next frame, with the
\* visualizer as it is when tick() runs; renderGeiss() advances geissTime
\* and fills the canvas with the colour of that time
tickBody(viz) ==
    /\ rendered' = Rendered(currentMode, viz)
    /\ geissTime' = IF Rendered(currentMode, viz) = "geiss"
                      THEN geissTime + GeissStep ELSE geissTime
    /\ winampTicks' = winampTicks + 1

\* init(): resizeCanvas() (no visualizer yet), setupButterchurn(), tick()
init ==
    /\ ~started
    /\ started' = TRUE
    /\ winampCanvas' = WinampCanvasOf(winampWindow)
    /\ \E ok \in BOOLEAN, hasPreset \in BOOLEAN : setupButterchurn(ok, hasPreset)
    /\ tickBody(winampVisualizer')
    /\ winampRaf' = winampRaf + 1
    /\ UNCHANGED <<audioSource, destination, currentMode, activeToggle,
                   winampWindow, milkPresses, winampEvents, xpVars>>

\* a requested frame is delivered: tick()
tick ==
    /\ winampRaf > 0
    /\ winampTicks < MaxWinampTicks
    /\ tickBody(winampVisualizer)
    /\ winampRaf' = (winampRaf - 1) + 1
    /\ UNCHANGED <<started, winampAudioCtx, audioSource, winampVisualizer,
                   preset, rendererSize, connectedAudio, destination,
                   currentMode, activeToggle, winampWindow, winampCanvas,
                   creations, milkPresses, winampEvents, xpVars>>

\* click on the MilkDrop toggle
milkToggleClick ==
    /\ winampEvents < MaxWinampEvents
    /\ currentMode' = "milk"
    /\ activeToggle' = "milk"
    /\ \E ok \in BOOLEAN, hasPreset \in BOOLEAN : setupButterchurn(ok, hasPreset)
    /\ milkPresses' = milkPresses + 1
    /\ winampEvents' = winampEvents + 1
    /\ UNCHANGED <<started, audioSource, destination, geissTime, winampWindow,
                   winampCanvas, winampRaf, rendered, winampTicks, xpVars>>

\* click on the Geiss toggle
geissToggleClick ==
    /\ winampEvents < MaxWinampEvents
    /\ currentMode' = "geiss"
    /\ activeToggle' = "geiss"
    /\ winampEvents' = winampEvents + 1
    /\ UNCHANGED <<started, winampAudioCtx, audioSource, winampVisualizer,
                   preset, rendererSize, connectedAudio, destination, geissTime,
                   winampWindow, winampCanvas, winampRaf, rendered, creations,
                   milkPresses, winampTicks, xpVars>>

\* connectMediaElement (audible = TRUE, from canplay of a chosen file) and
\* connectMediaStream (audible = FALSE, from a granted getUserMedia): the
\* old source is disconnected from everything, the new one goes to the
\* destination if it is a file and to the visualizer if there is one
connectMedia(audible) ==
    /\ winampEvents < MaxWinampEvents
    /\ winampAudioCtx' = TRUE
    /\ audioSource' = NextSource
    /\ destination' = (destination \ {audioSource})
                        \cup (IF audible THEN {NextSource} ELSE {})
    /\ connectedAudio' = (connectedAudio \ {audioSource})
                           \cup (IF winampVisualizer THEN {NextSource} ELSE {})
    /\ winampEvents' = winampEvents + 1
    /\ UNCHANGED <<started, winampVisualizer, preset, rendererSize, currentMode,
                   geissTime, activeToggle, winampWindow, winampCanvas,
                   winampRaf, rendered, creations, milkPresses, winampTicks,
                   xpVars>>

\* window resize: resizeCanvas()
resizeCanvas(w) ==
    /\ winampEvents < MaxWinampEvents
    /\ winampWindow' = w
    /\ winampCanvas' = WinampCanvasOf(w)
    /\ rendererSize' = IF winampVisualizer THEN WinampCanvasOf(w) ELSE rendererSize
    /\ winampEvents' = winampEvents + 1
    /\ UNCHANGED <<started, winampAudioCtx, audioSource, winampVisualizer,
                   preset, connectedAudio, destination, currentMode, geissTime,
                   activeToggle, winampRaf, rendered, creations, milkPresses,
                   winampTicks, xpVars>>

\* The Winamp visualizer page: start-up, toggles, sources, resizes, frames.
NextWinamp ==
    \/ init
    \/ tick
    \/ milkToggleClick
    \/ geissToggleClick
    \/ \E audible \in BOOLEAN : connectMedia(audible)
    \/ \E w \in WinampWindows : resizeCanvas(w)

SpecWinamp == Init /\ [][NextWinamp]_vars

\* ------------------------------------------------------------------ claims

\* the rhythm step of a frame is about to run on the spectrum just read
AtRhythm == visualizer /\ tickPc = "rhythm"
\* the rhythm step of the latest frame has run
PastRhythm == visualizer /\ ticks > 0 /\ tickPc \in {"draw", "schedule", "idle"}
\* low-band energy of the spectrum of the latest frame
FrameLowEnergy == LowEnergy(dataArray, bufferLength)

\* C1: any two frames at which a beat triggers (lastBeatAt is reassigned)
\* are more than 0.18 s apart, also when the low-band spike persists on
\* every frame in between.
C1_RefractoryPeriod ==
    [][(lastBeatAt # NegInfinity /\ lastBeatAt' # lastBeatAt)
         => lastBeatAt' - lastBeatAt > RefractoryMs]_vars

\* C1 witness: a second beat has just triggered, and the spike that set off
\* the first one is still there
C1_SecondBeat ==
    /\ PastRhythm
    /\ prevBeatAt # NegInfinity
    /\ lastBeatAt = timeMs
    /\ dataArray = Kick

\* C2 as stated: a frame whose low-band energy exceeds 1.35 * baseline + 0.02
\* for the baseline held BEFORE the frame, more than 0.18 s after the last
\* beat, triggers a beat; the first frame of a session included.
C2_SpikeOverOldBaseline ==
    [][(AtRhythm /\ FrameLowEnergy > Threshold(energyEMA)
          /\ RefractoryOver(timeMs, lastBeatAt))
         => lastBeatAt' = timeMs]_vars

\* C2 amended: a frame whose low-band energy exceeds 1.35 * baseline + 0.02
\* for the baseline already updated with this frame's energy, more than
\* 0.18 s after the last beat, triggers a beat (lastBeatAt becomes the
\* frame's time); a frame that finds the baseline at 0 (the first frame of a
\* session, the first loud frame after all-zero spectra) seeds the baseline
\* with its own energy and never triggers.
C2_SpikeOverUpdatedBaseline ==
    [][AtRhythm =>
         /\ (FrameLowEnergy > Threshold(energyEMA')
               /\ RefractoryOver(timeMs, lastBeatAt)) => lastBeatAt' = timeMs
         /\ energyEMA = 0 => (energyEMA' = FrameLowEnergy /\ lastBeatAt' = lastBeatAt)
      ]_vars

\* C2 witness: a beat has just triggered on a spike over the updated baseline
C2_BeatOnSpike ==
    /\ PastRhythm
    /\ tickPc = "draw"
    /\ lastBeatAt = timeMs
    /\ FrameLowEnergy > Threshold(energyEMA)

\* C3: a frame whose spectrum is all zero never triggers a beat, whatever
\* the rhythm state before it; while every spectrum of the session has been
\* all zero, lastBeatAt keeps its initial value and beatStrength is 0.
C3_SilenceNeverBeats ==
    /\ [][(AtRhythm /\ dataArray = Silence) => lastBeatAt' = lastBeatAt]_vars
    /\ []((visualizer /\ allSilent /\ tickPc # "rhythm")
            => (lastBeatAt = NegInfinity /\ beatStrength = 0 /\ energyEMA = 0))

\* C3 witness: a silent frame has run, after an earlier beat and with the
\* refractory period over, and triggered nothing
C3_SilentFrameAfterBeat ==
    /\ PastRhythm
    /\ dataArray = Silence
    /\ lastBeatAt # NegInfinity
    /\ lastBeatAt < timeMs
    /\ RefractoryOver(timeMs, lastBeatAt)

\* C4: after every frame beatStrength = max(0, 1 - (now - lastBeatAt)/0.25);
\* over frames without a new trigger it never increases; it is exactly 0 on
\* every frame at least 0.25 s after the last trigger.
C4_BeatStrengthEnvelope ==
    /\ [](PastRhythm =>
            beatStrength =
               IF lastBeatAt = NegInfinity THEN 0
               ELSE Max(0, Scale - RoundDiv((timeMs - lastBeatAt) * Scale, DecayMs)))
    /\ [](PastRhythm /\ lastBeatAt # NegInfinity /\ timeMs - lastBeatAt >= DecayMs
            => beatStrength = 0)
    /\ [][lastBeatAt' = lastBeatAt => beatStrength' <= beatStrength]_vars

\* C4 witness: a frame between a beat and the end of its decay
C4_Decaying ==
    /\ PastRhythm
    /\ lastBeatAt # NegInfinity
    /\ lastBeatAt < timeMs
    /\ 0 < beatStrength
    /\ beatStrength < Scale

\* the Burst draw of a frame is about to run
AtBurstDraw == visualizer /\ tickPc = "draw" /\ currentStyle = "burst"

\* C5: the scribble buffer never holds more than maxScribblePoints points,
\* after any number of frames in any order of modes; a Burst frame appends
\* exactly one point and evicts at most one (the oldest).
C5_TrailBound ==
    /\ [](Len(scribble) <= maxScribblePoints)
    /\ [][AtBurstDraw =>
            /\ scribble' # <<>>
            /\ \/ scribble' = Append(scribble, scribble'[Len(scribble')])
               \/ scribble' = Tail(Append(scribble, scribble'[Len(scribble')]))
         ]_vars

\* C5 witness: the buffer is full and its first point is no longer the
\* first one ever appended (under the steady hum every Burst frame advances
\* the angle by the same step, so the first point ever appended sits at one
\* step): a Burst frame has evicted
C5_FullAfterEviction ==
    /\ visualizer
    /\ Len(scribble) = maxScribblePoints
    /\ scribble[1].a > scribble[2].a - scribble[1].a

\* C6: the scribble buffer and scribbleAngle change only in the Burst draw:
\* frames of the other modes, tab clicks and everything else leave them as
\* the last Burst frame left them, so the first Burst frame after a return
\* to Burst finds them unchanged.
C6_TrailSurvivesSwitch ==
    [][~AtBurstDraw => UNCHANGED <<scribble, scribbleAngle>>]_vars

\* C6 witness: Burst is selected again, its draw is about to run, the frame
\* before it was drawn by another mode, and the trail of the earlier Burst
\* frames is there
C6_BackInBurst ==
    /\ AtBurstDraw
    /\ drawn \in {"swirl", "spectrum3d"}
    /\ Len(scribble) > 0
    /\ scribbleAngle = scribble[Len(scribble)].a

\* C7 as stated: with currentStyle outside {swirl, burst, spectrum3d}, every
\* frame still renders with the mode that was active before the change.
C7_UnknownStyleKeepsMode ==
    (visualizer /\ tickPc = "schedule" /\ currentStyle \notin Styles)
        => drawn = lastValidStyle

\* the frame loop is alive: a frame is running or one is pending
TickLoopAlive == tickPc # "idle" \/ rafPending > 0

\* C8 as stated: frames run whether or not a source is connected, also
\* before any source has been attached and after an attach has failed.
C8_NeverBlank == TickLoopAlive

\* some loadFile / useMicrophone call has run to its end
Attached == \E c \in Calls : calls[c].pc = "done"
Active == visualizer /\ TickLoopAlive
Idle == ~visualizer /\ rafPending = 0 /\ tickPc = "idle"

C10_NoOverlappingFrames ==
    /\ [](visualizer => rafPending = IF tickPc = "idle" THEN 1 ELSE 0)
    /\ [][(tickPc # "idle" /\ tickPc' = "idle")
            => (tickPc = "schedule" /\ rafPending' = rafPending + 1)]_vars

\* C10 witness: a frame has run to its end with an unrecognised style and
\* left one callback pending
C10_FrameDoneUnknownStyle ==
    /\ visualizer
    /\ tickPc = "idle"
    /\ ticks > 0
    /\ currentStyle = UnknownStyle
    /\ drawn = "none"
    /\ rafPending = 1

\* the draw of a frame is about to run
AtDraw == visualizer /\ tickPc = "draw"
\* the window is the large one, after a resize away from the initial 800x600
Enlarged == resizes > 0 /\ window[1] = 1920 /\ window[2] = 1080
\* every value of a bin, and beat strengths over [0, 1]
Bytes == 0 .. 255
Strengths == {0, Scale \div 2, Scale}

\* C11 as stated: after the resize from 800x600 to 1920x1080 the geometry
\* of the next frame lies within the new viewport for every amplitude and
\* beat strength: no Swirl arc and no Burst spoke end point is further from
\* the centre than the farthest point of the viewport, its corner (a point
\* further out is outside the viewport whatever its angle).
C11_GeometryInViewport ==
    (AtDraw /\ Enlarged) =>
        \A v \in Bytes, b \in Strengths :
            /\ SwirlRadius(maxRadius, Amp(v), b) <= MaxRadiusOf(window)
            /\ BurstLength(maxRadius, Amp(v), b) <= MaxRadiusOf(window)

\* C11 amended: whenever a frame draws, centerX, centerY and maxRadius are
\* the ones derived from the current window (after the resize to 1920x1080:
\* 960, 540 and the half-diagonal, 1101.4 px), and every Swirl arc radius
\* and Burst spoke length of the frame is computed from that maxRadius: the
\* radius is between 0.55 and 1.4375 times maxRadius, the spoke length
\* between 0.35 and 1.495 times maxRadius (to the rounding of the last
\* digit), for the spectrum of the frame and, after the resize to
\* 1920x1080, for every amplitude and beat strength, so arcs and spoke ends
\* can lie outside the viewport.
C11_GeometryFromNewViewport ==
    AtDraw =>
        /\ centerX = (window[1] * PxScale) \div 2
        /\ centerY = (window[2] * PxScale) \div 2
        /\ maxRadius * maxRadius <= centerX * centerX + centerY * centerY
        /\ (maxRadius + 1) * (maxRadius + 1) > centerX * centerX + centerY * centerY
        /\ Enlarged => maxRadius - (110145 * PxScale) \div 100 \in {-1, 0, 1}
        /\ LET arcMin == MulPct(maxRadius, 55) - 1
               arcMax == MulPct(MulPct(maxRadius, 115), 125) + 1
               spokeMin == MulPct(maxRadius, 35) - 1
               spokeMax == MulPct(MulPct(maxRadius, 115), 130) + 1
           IN  /\ \A i \in DOMAIN dataArray :
                     /\ SwirlArcs[i] >= arcMin /\ SwirlArcs[i] <= arcMax
                     /\ BurstSpokes[i] >= spokeMin /\ BurstSpokes[i] <= spokeMax
               /\ Enlarged =>
                     \A v \in Bytes, b \in Strengths :
                         LET arc == SwirlRadius(maxRadius, Amp(v), b)
                             spoke == BurstLength(maxRadius, Amp(v), b)
                         IN  /\ arc >= arcMin /\ arc <= arcMax
                             /\ spoke >= spokeMin /\ spoke <= spokeMax

\* C11 witness: a Burst frame is about to draw in the 1920x1080 window and
\* the trail still holds a point of a frame drawn around the 800x600 centre
C11_FrameAfterResize ==
    /\ AtBurstDraw
    /\ Enlarged
    /\ centerX = 960 * PxScale
    /\ Len(scribble) > 0
    /\ scribble[1].cx = 400 * PxScale

\* the window has no width or no height
Degenerate == window[1] = 0 \/ window[2] = 0

\* C12 as stated: a frame that finds the viewport without width or without
\* height draws in no mode and appends no trail point.
C12_DegenerateFrameSkipped ==
    [][(AtDraw /\ Degenerate) =>
          (drawn' = "none" /\ UNCHANGED <<scribble, scribbleAngle, compositeOp>>)]_vars

\* C13: when the canvas yields no 2D context, the constructor throws into
\* the handler that called it (loadFile ends rejected, useMicrophone in its
\* catch block; neither runs to its end), `visualizer` stays unset, and no
\* frame callback is ever pending or running.
C13_SurfaceFailureFatal ==
    ~context2d =>
        /\ ~visualizer
        /\ rafPending = 0
        /\ tickPc = "idle"
        /\ ticks = 0
        /\ \A c \in Calls : calls[c].pc # "done"

\* C13 witness: the constructor has thrown (its listeners are registered,
\* nothing else of it is) into a loadFile whose file had decoded, and a
\* window resize has followed
C13_ConstructorThrew ==
    /\ ~context2d
    /\ listeners > 0
    /\ \E c \in Calls : calls[c].kind = "file" /\ calls[c].pc = "rejected"
    /\ sourceNode # 0
    /\ resizes > 0

\* C14: a frame callback is pending or running only once the trail fields
\* are assigned, although the constructor requests the first frame before
\* it assigns them; a Burst draw, the draw of the very first frame
\* included, runs to its end and leaves a point in the trail.
C14_TrailReadyBeforeFirstTick ==
    /\ []((rafPending > 0 \/ tickPc # "idle") => scribbleDefined)
    /\ [][AtBurstDraw => (tickPc' = "schedule" /\ Len(scribble') > 0)]_vars

\* C14 witness: Burst was selected before the first frame, and the first
\* frame has drawn it and requested the next
C14_FirstFrameInBurst ==
    /\ visualizer
    /\ ticks = 1
    /\ tickPc = "idle"
    /\ drawn = "burst"
    /\ Len(scribble) = 1
    /\ rafPending = 1

\* the SpectrumBars draw of a frame is about to run
AtBarsDraw == visualizer /\ tickPc = "draw" /\ currentStyle = "spectrum3d"
\* the bins bar i averages
BarBins(i) == {BarBin(bufferLength, i, j) : j \in 0 .. (barsPerBin(bufferLength) - 1)}
BarIds == 0 .. (barCount - 1)

RECURSIVE SetSum(_, _)
\* the sum of data over a set of bins
SetSum(data, S) ==
    IF S = {} THEN 0
    ELSE LET k == CHOOSE k \in S : TRUE IN data[k] + SetSum(data, S \ {k})

AtSwirlDraw == visualizer /\ tickPc = "draw" /\ currentStyle = "swirl"
\* the frame's spectrum has every bin at 128, its time is 0 and no beat
\* strength is left
MidSpectrumAtZero ==
    /\ \A i \in DOMAIN dataArray : dataArray[i] = 128
    /\ timeMs = 0
    /\ beatStrength = 0

\* C16: in a Swirl frame over a spectrum with every bin at 128, at time 0
\* and beat strength 0, the factor (0.55 + amp * 0.6) * (1 + 0 * 0.25) is
\* 0.8512 to the four decimals given, and the arc of bin 0 (and of every
\* bin) has radius maxRadius * 0.8512 to a tenth of a pixel; the radius is
\* the same in every such frame with the same maxRadius, whatever the
\* session did before.
C16_SwirlRadiusMidSpectrum ==
    (AtSwirlDraw /\ MidSpectrumAtZero) =>
        /\ RoundDiv((MulPct(Scale, 55) + MulPct(Amp(dataArray[0]), 60)) * 10000,
                    Scale) = 8512
        /\ \A i \in DOMAIN SwirlArcs :
              /\ SwirlArcs[i] - RoundDiv(maxRadius * 8512, 10000) <= 1
              /\ RoundDiv(maxRadius * 8512, 10000) - SwirlArcs[i] <= 1

\* C16 witness: the first frame of a session, in Swirl, at time 0, over the
\* spectrum with every bin at 128
C16_FirstFrameMidSpectrum ==
    /\ AtSwirlDraw
    /\ MidSpectrumAtZero
    /\ ticks = 1
    /\ maxRadius > 0
    /\ SwirlArcs[0] > 0

\* C17: a frame callback goes through its steps in one order, each once:
\* the read of the spectrum and of the clock, the rhythm update, the draw
\* of at most one mode, the request of the next frame. The spectrum and
\* the frame time change only in the read, the rhythm state only in the
\* rhythm step, the painted mode and the trail only in the draw, and a
\* frame is requested only in the last step, one per frame.
C17_PerTickOrder ==
    /\ [][tickPc' # tickPc =>
            <<tickPc, tickPc'>> \in {<<"idle", "rhythm">>, <<"rhythm", "draw">>,
                                     <<"draw", "schedule">>, <<"schedule", "idle">>}]_vars
    /\ [][(visualizer /\ (dataArray' # dataArray \/ timeMs' # timeMs))
            => (tickPc = "idle" /\ tickPc' = "rhythm")]_vars
    /\ [][(visualizer /\ rhythmVars' # rhythmVars)
            => (tickPc = "rhythm" /\ tickPc' = "draw")]_vars
    /\ [][(visualizer /\ (drawn' # drawn \/ compositeOp' # compositeOp
                             \/ scribble' # scribble))
            => (tickPc = "draw" /\ tickPc' = "schedule"
                  /\ drawn' \in Styles \cup {"none"})]_vars
    /\ [][(visualizer /\ rafPending' > rafPending)
            => (tickPc = "schedule" /\ rafPending' = rafPending + 1)]_vars

\* C17 witness: a second or later frame has gone through all four steps: it
\* read a kick, the rhythm step triggered on it, SpectrumBars drew, and the
\* next frame is requested
C17_FrameWentThrough ==
    /\ visualizer
    /\ tickPc = "idle"
    /\ ticks >= 2
    /\ dataArray = Kick
    /\ lastBeatAt = timeMs
    /\ drawn = "spectrum3d"
    /\ rafPending = 1

\* C18: the rhythm step compares the frame's low-band energy against
\* 1.35 * baseline + 0.02 for the baseline it has just updated with that
\* energy; when the energy is above it and the last beat is more than
\* 0.18 s old, lastBeatAt becomes the frame's time and beatStrength is
\* exactly 1, otherwise lastBeatAt is left as it was.
C18_TriggerEffect ==
    [][AtRhythm =>
         /\ energyEMA' = IF energyEMA = 0 THEN FrameLowEnergy
                          ELSE MulPct(energyEMA, 88) + MulPct(FrameLowEnergy, 12)
         /\ IF FrameLowEnergy > MulPct(energyEMA', 135) + MulPct(Scale, 2)
                 /\ (lastBeatAt = NegInfinity \/ timeMs - lastBeatAt > 180)
              THEN lastBeatAt' = timeMs /\ beatStrength' = Scale
              ELSE lastBeatAt' = lastBeatAt
      ]_vars

\* C18 witness: a beat has triggered in this frame after an earlier one, and
\* the strength is back at 1
C18_BeatAtFullStrength ==
    /\ visualizer
    /\ tickPc = "schedule"
    /\ lastBeatAt = timeMs
    /\ prevBeatAt # NegInfinity
    /\ beatStrength = Scale

\* C19: energyEMA and beatStrength stay in [0, 1] in every state of a
\* session whose bins are bytes and whose clock never runs back.
C19_RhythmRanges ==
    /\ 0 <= energyEMA /\ energyEMA <= Scale
    /\ 0 <= beatStrength /\ beatStrength <= Scale

\* C19 witness: the baseline sits at its upper end, 1 (the first frame was
\* at full scale in the low band), and a later frame has run
C19_BaselineAtOne ==
    /\ PastRhythm
    /\ ticks >= 2
    /\ energyEMA = Scale
    /\ beatStrength = 0

\* C20: energyEMA, lastBeatAt and beatStrength change only in the rhythm
\* step of a frame: the draw of any mode, the request of the next frame,
\* resize, tab clicks and every step of loadFile and useMicrophone leave
\* all three as they were.
C20_RhythmSingleWriter ==
    [][tickPc # "rhythm" => UNCHANGED <<energyEMA, lastBeatAt, beatStrength>>]_vars

\* C20 witness: the rhythm state a Burst frame left is still there after a
\* window resize that followed the frame (the trail point of the frame sits
\* around the old centre)
C20_StateSurvivesHandlers ==
    /\ visualizer
    /\ tickPc = "idle"
    /\ energyEMA > 0
    /\ drawn = "burst"
    /\ Len(scribble) = 1
    /\ scribble[1].cx # centerX

\* C21: a Burst draw advances scribbleAngle by at least 0.02 (exactly 0.02
\* over silence with no beat strength left); every other step, the draws
\* of the other modes, resize and tab clicks included, leaves it as it was:
\* it is never reset and never decreases.
C21_ScribblePhase ==
    [][IF AtBurstDraw
         THEN scribbleAngle' >= scribbleAngle + MulPct(Scale, 2)
         ELSE scribbleAngle' = scribbleAngle]_vars

\* C21 witness: the phase has advanced over two Burst frames, the second over
\* silence, and a resize has followed the first (its trail point sits
\* around the old centre)
C21_PhaseAdvanced ==
    /\ visualizer
    /\ tickPc = "schedule"
    /\ drawn = "burst"
    /\ dataArray = Silence
    /\ Len(scribble) = 2
    /\ scribble[1].cx # centerX
    /\ scribbleAngle > scribble[1].a

\* a Burst frame has just been painted
BurstPainted == visualizer /\ tickPc = "schedule" /\ drawn = "burst"
\* the phase step of a Burst frame over the steady hum, with no beat strength
HumStep == ScribbleStep(AvgAmp(Hum, FrequencyBinCount), 0)
\* the number of Burst frames so far over the steady hum: each one advanced
\* the phase by HumStep, and the point it appended carries the phase it
\* reached, so the point of the i-th Burst frame has a = i * HumStep
BurstFrames == scribbleAngle \div HumStep

\* C22: after k Burst frames the buffer holds exactly the points of the
\* frames k - min(k, 200) + 1 .. k, oldest first: its length is
\* min(k, maxScribblePoints) and its j-th point is the one appended by the
\* frame that many places from the latest, so an overflow removed the
\* oldest point and nothing else.
C22_FifoTrail ==
    BurstPainted =>
        LET k == BurstFrames
            n == Len(scribble)
        IN /\ scribbleAngle = k * HumStep
           /\ n = Min(k, maxScribblePoints)
           /\ \A j \in 1 .. n : scribble[j].a = (k - n + j) * HumStep

\* C22 witness: the 202nd Burst frame has been painted; the buffer holds the
\* points of frames 3 .. 202
C22_TwoEvicted ==
    /\ BurstPainted
    /\ BurstFrames = maxScribblePoints + 2
    /\ Len(scribble) = maxScribblePoints
    /\ scribble[1].a = 3 * HumStep

\* a frame of the given mode has just been painted
Painted(style) == visualizer /\ tickPc = "schedule" /\ drawn = style

\* C23: whenever a frame's geometry has been painted the composition mode
\* of the surface is the one of the frame's mode, additive for Swirl and
\* Burst and normal for Spectrum3D, whatever modes were active before: the
\* mode left behind by an earlier frame is never inherited.
C23_CompositionFollowsMode ==
    /\ (Painted("swirl") \/ Painted("burst")) => compositeOp = "lighter"
    /\ Painted("spectrum3d") => compositeOp = "source-over"

\* C23 witness: a Spectrum3D frame painted in normal mode in a session in
\* which an earlier Burst frame left the surface in additive mode
C23_BarsAfterBurst ==
    /\ Painted("spectrum3d")
    /\ compositeOp = "source-over"
    /\ Len(scribble) > 0

\* the tick loops of the session: frame requests pending or being served
TickLoops == rafPending + (IF tickPc = "idle" THEN 0 ELSE 1)

\* C24: in every interleaving of loadFile and useMicrophone calls at most
\* one XPVisualizer is ever constructed: at most one tick loop runs and at
\* most one set of resize listeners is registered (every construction
\* registers its own set, so a second set is a second construction).
C24_SingleVisualizer ==
    /\ TickLoops <= 1
    /\ listeners <= 1

\* C25: in every interleaving of loadFile and useMicrophone calls at most
\* one source node is connected to the analyser, sourceNode is that node,
\* and every microphone stream with live tracks is the current one.
C25_SingleLiveSource ==
    /\ Cardinality(connected) <= 1
    /\ connected \subseteq {sourceNode}
    /\ liveStreams \subseteq {microphoneStream}

\* a step that runs tick(): the one init() makes or a delivered frame
TickStep == winampTicks' = winampTicks + 1

\* C26: every tick of the Winamp page renders exactly the module
\* currentMode selects (Butterchurn in 'milk' when the visualizer exists,
\* the Geiss stub in 'geiss', nothing otherwise) and leaves a frame
\* requested; geissTime advances by 0.015 on the ticks that render the
\* Geiss stub and changes in no other step; createVisualizer returns at
\* most one visualizer however often the MilkDrop toggle is pressed.
C26_ToggleLoop ==
    /\ [](creations <= 1)
    /\ [][IF TickStep
            THEN /\ (currentMode = "milk" /\ winampVisualizer')
                        => rendered' = "butterchurn"
                 /\ (currentMode = "milk" /\ ~winampVisualizer')
                        => rendered' = "none"
                 /\ currentMode = "geiss" => rendered' = "geiss"
                 /\ winampRaf' >= 1
                 /\ geissTime' = geissTime
                        + (IF currentMode = "geiss" THEN GeissStep ELSE 0)
            ELSE /\ geissTime' = geissTime
                 /\ rendered' = rendered]_vars

\* C26 witness: the MilkDrop toggle has been pressed twice with a visualizer
\* in place, two ticks have rendered the Geiss stub, and the latest tick
\* rendered Butterchurn again
C26_BackToMilk ==
    /\ creations = 1
    /\ milkPresses >= 2
    /\ geissTime = 2 * GeissStep
    /\ rendered = "butterchurn"
    /\ winampRaf = 1

====
